---- MODULE Spec2Model ----
(***************************************************************************)
(* Model of elliott_wave_analyzer.py: the ZigZag swing detector (zigzag),  *)
(* the 5-3 wave labeling heuristic (try_label_5_3) and their composition   *)
(* in analyze.                                                             *)
(*                                                                         *)
(* A price series is a sequence of integers; the timestamp of a point is   *)
(* its position 1..Len (a strictly time-ordered index).  Percentages are   *)
(* compared exactly, by cross-multiplication: (x - b) / b >= pct / 100 is  *)
(* (x - b) * 100 >= pct * b for b > 0.                                     *)
(***************************************************************************)
EXTENDS Integers, Sequences, FiniteSets

VARIABLES
    prices,            \* zigzag's argument `prices` (the close series)
    pct,               \* zigzag's argument `pct`, in percent
    i,                 \* the loop index of `for i in range(1, len(prices))`, 1-based
    direction,         \* 0 unknown, +1 up, -1 down
    last_pivot_idx,
    last_pivot_price,
    swings,            \* zigzag's local list `swings`
    cleaned,           \* zigzag's return value, `swings` in analyze
    labeling,          \* try_label_5_3's return value
    entry,             \* the loop state at the start of the current iteration
    pc                 \* position in analyze / zigzag

vars == <<prices, pct, i, direction, last_pivot_idx, last_pivot_price,
          swings, cleaned, labeling, entry, pc>>

(***************************************************************************)
(* Bounds of the checked inputs.                                           *)
(***************************************************************************)
MaxLen == 6
MaxPrice == 3
PctSet == {25, 40, 50, 60}

PriceSet == 1..MaxPrice

SeriesSet == UNION {[1..n -> PriceSet] : n \in 0..MaxLen}

(***************************************************************************)
(* Helpers for pandas' label slices prices.loc[a:b] (both ends included).  *)
(***************************************************************************)
Abs(x) == IF x < 0 THEN -x ELSE x

SliceMax(series, a, b) ==
    CHOOSE m \in {series[j] : j \in a..b} : \A j \in a..b : series[j] <= m

SliceMin(series, a, b) ==
    CHOOSE m \in {series[j] : j \in a..b} : \A j \in a..b : series[j] >= m

\* Series.idxmax / idxmin return the first label at which the extreme occurs.
SliceIdxMax(series, a, b) ==
    CHOOSE j \in a..b : /\ series[j] = SliceMax(series, a, b)
                        /\ \A k \in a..(j - 1) : series[k] # series[j]

SliceIdxMin(series, a, b) ==
    CHOOSE j \in a..b : /\ series[j] = SliceMin(series, a, b)
                        /\ \A k \in a..(j - 1) : series[k] # series[j]

Swing(idx, price, dir) == [idx |-> idx, price |-> price, direction |-> dir]

\* num / den >= t / 100 and num / den <= -(t / 100), for den # 0.
FracGE(num, den, t) ==
    IF den > 0 THEN num * 100 >= t * den ELSE num * 100 <= t * den

FracLE(num, den, t) ==
    IF den > 0 THEN num * 100 <= t * den ELSE num * 100 >= t * den

(***************************************************************************)
(* zigzag: the loop state is the record                                    *)
(* [direction, last_pivot_idx, last_pivot_price, swings].                  *)
(***************************************************************************)
\* Lines 64-68: the state before the loop, the anchor swing appended.
EnterState(series) ==
    [direction |-> 0,
     last_pivot_idx |-> 1,
     last_pivot_price |-> series[1],
     swings |-> <<Swing(1, series[1], 0)>>]

\* abs(change) >= pct, change = (price - last_pivot_price) / last_pivot_price
ChangeReached(price, pivot_price, thr) ==
    Abs(price - pivot_price) * 100 >= thr * Abs(pivot_price)

\* direction = 1 if change > 0 else -1
ChangeSign(price, pivot_price) ==
    IF \/ price - pivot_price > 0 /\ pivot_price > 0
       \/ price - pivot_price < 0 /\ pivot_price < 0
    THEN 1 ELSE -1

\* Lines 77-80: initial direction discovery in the first block.
DiscoverFirst(st, price, thr) ==
    IF ChangeReached(price, st.last_pivot_price, thr)
    THEN [st EXCEPT !.direction = ChangeSign(price, st.last_pivot_price)]
    ELSE st

\* Lines 91-94: the same discovery in the second block.
DiscoverSecond(st, price, thr) ==
    IF ChangeReached(price, st.last_pivot_price, thr)
    THEN [st EXCEPT !.direction = ChangeSign(price, st.last_pivot_price)]
    ELSE st

\* A slip in the drawdown test: the comparison is the wrong way round.
DownReached_WrongWay(price, high_since, thr) ==
    FracGE(price - high_since, high_since, -thr)

\* down_change <= -pct, down_change = (price - high_since) / high_since
DownReached(price, high_since, thr) ==
    FracLE(price - high_since, high_since, -thr)

\* A slip in the rally test: pct is not scaled from percent to a fraction.
UpReached_NoScale(price, low_since, thr) ==
    IF low_since # 0 THEN FracGE(price - low_since, low_since, thr * 100) ELSE 0 >= thr

\* up_change >= pct, up_change = (price - low_since) / low_since if low_since != 0 else 0.0
UpReached(price, low_since, thr) ==
    IF low_since # 0 THEN FracGE(price - low_since, low_since, thr) ELSE 0 >= thr

\* A slip in the high pivot: the direction is not flipped.
ConfirmHigh_NoFlip(st, series, k) ==
    LET pivot_idx == SliceIdxMax(series, st.last_pivot_idx, k)
        pivot_price == series[pivot_idx]
    IN  [direction |-> 1,
         last_pivot_idx |-> pivot_idx,
         last_pivot_price |-> pivot_price,
         swings |-> Append(st.swings, Swing(pivot_idx, pivot_price, 1))]

\* A slip in the high pivot: last_pivot is not moved to the new pivot.
ConfirmHigh_KeepPivot(st, series, k) ==
    LET pivot_idx == SliceIdxMax(series, st.last_pivot_idx, k)
        pivot_price == series[pivot_idx]
    IN  [direction |-> -1,
         last_pivot_idx |-> st.last_pivot_idx,
         last_pivot_price |-> st.last_pivot_price,
         swings |-> Append(st.swings, Swing(pivot_idx, pivot_price, 1))]

\* Lines 82-86: confirm the pivot at the maximum since the last pivot.
ConfirmHigh(st, series, k) ==
    LET pivot_idx == SliceIdxMax(series, st.last_pivot_idx, k)
        pivot_price == series[pivot_idx]
    IN  [direction |-> -1,
         last_pivot_idx |-> pivot_idx,
         last_pivot_price |-> pivot_price,
         swings |-> Append(st.swings, Swing(pivot_idx, pivot_price, 1))]

\* A slip in the low pivot: the pivot is put at the current point instead of
\* at the minimum since the last pivot.
ConfirmLow_AtCurrent(st, series, k) ==
    [direction |-> 1,
     last_pivot_idx |-> k,
     last_pivot_price |-> series[k],
     swings |-> Append(st.swings, Swing(k, series[k], -1))]

\* Lines 96-100: confirm the pivot at the minimum since the last pivot.
ConfirmLow(st, series, k) ==
    LET pivot_idx == SliceIdxMin(series, st.last_pivot_idx, k)
        pivot_price == series[pivot_idx]
    IN  [direction |-> 1,
         last_pivot_idx |-> pivot_idx,
         last_pivot_price |-> pivot_price,
         swings |-> Append(st.swings, Swing(pivot_idx, pivot_price, -1))]

\* Lines 74-86: the `if direction >= 0` block at point k.
BlockUp(st, series, thr, k) ==
    IF st.direction >= 0
    THEN LET price == series[k]
             high_since == SliceMax(series, st.last_pivot_idx, k)
         IN  IF st.direction = 0
             THEN DiscoverFirst(st, price, thr)
             ELSE IF st.direction = 1 /\ DownReached(price, high_since, thr)
                  THEN ConfirmHigh(st, series, k)
                  ELSE st
    ELSE st

\* Lines 88-100: the `if direction <= 0` block at point k.
BlockDown(st, series, thr, k) ==
    IF st.direction <= 0
    THEN LET price == series[k]
             low_since == SliceMin(series, st.last_pivot_idx, k)
         IN  IF st.direction = 0
             THEN DiscoverSecond(st, price, thr)
             ELSE IF st.direction = -1 /\ UpReached(price, low_since, thr)
                  THEN ConfirmLow(st, series, k)
                  ELSE st
    ELSE st

\* A slip in the closer: it is appended with direction UNKNOWN.
CloseSwings_Unknown(st, series) ==
    Append(st.swings, Swing(Len(series), series[Len(series)], 0))

\* Line 102: the closing swing at the last point, with the current direction.
CloseSwings(st, series) ==
    Append(st.swings, Swing(Len(series), series[Len(series)], st.direction))

\* Lines 104-107: drop a swing whose idx equals that of the last swing kept.
RECURSIVE CleanFrom(_, _)
CleanFrom(done, rest) ==
    IF rest = <<>> THEN done
    ELSE LET s == Head(rest)
         IN  IF done = <<>> \/ s.idx # done[Len(done)].idx
             THEN CleanFrom(Append(done, s), Tail(rest))
             ELSE CleanFrom(done, Tail(rest))

Clean(sw) == CleanFrom(<<>>, sw)

\* Lines 70-100: the state after the loop has processed points 2..k.
LoopState(series, thr, k) ==
    LET f[j \in 1..k] ==
            IF j = 1 THEN EnterState(series)
            ELSE BlockDown(BlockUp(f[j - 1], series, thr, j), series, thr, j)
    IN  f[k]

\* zigzag(prices, pct) as a function of its arguments.
Zigzag(series, thr) ==
    IF series = <<>> THEN <<>>
    ELSE Clean(CloseSwings(LoopState(series, thr, Len(series)), series))

(***************************************************************************)
(* try_label_5_3.  A Python dict is a record whose domain is its keys; an  *)
(* uncaught IndexError is the record [raised |-> "IndexError"].            *)
(***************************************************************************)
\* A slip in the gate: one swing fewer is let through.
TooFew_Seven(sw) == Len(sw) < 7

\* Line 131: len(swings) < 8
TooFew(sw) == Len(sw) < 8

\* A slip in the window: the last eight swings, the final one included.
Window_LastEight(sw) ==
    LET n == Len(sw)
        start == IF n - 8 > 0 THEN n - 8 ELSE 0
    IN  SubSeq(sw, start + 1, n)

\* Line 134: pts = swings[-9:-1]; a negative start below -len is clamped to 0.
Window(sw) ==
    LET n == Len(sw)
        start == IF n - 9 > 0 THEN n - 9 ELSE 0
    IN  SubSeq(sw, start + 1, n - 1)

\* Python's list indexing is 0-based and raises IndexError out of range.
InRange(seq, k) == k + 1 \in 1..Len(seq)

\* prices[k] of line 135, k 0-based: the price of pts[k].
P(pts, k) == pts[k + 1].price

\* A slip in ok_impulse: the wave-2 retracement is not checked.
OkImpulse_NoWave2(pts, trend_up) ==
    IF trend_up
    THEN /\ P(pts, 1) > P(pts, 0) /\ P(pts, 3) > P(pts, 2)
         /\ P(pts, 4) < P(pts, 3) /\ P(pts, 5) > P(pts, 4)
    ELSE /\ P(pts, 1) < P(pts, 0) /\ P(pts, 3) < P(pts, 2)
         /\ P(pts, 4) > P(pts, 3) /\ P(pts, 5) < P(pts, 4)

\* Lines 143-146: ok_impulse.
OkImpulse(pts, trend_up) ==
    IF trend_up
    THEN /\ P(pts, 1) > P(pts, 0) /\ P(pts, 2) < P(pts, 1) /\ P(pts, 3) > P(pts, 2)
         /\ P(pts, 4) < P(pts, 3) /\ P(pts, 5) > P(pts, 4)
    ELSE /\ P(pts, 1) < P(pts, 0) /\ P(pts, 2) > P(pts, 1) /\ P(pts, 3) < P(pts, 2)
         /\ P(pts, 4) > P(pts, 3) /\ P(pts, 5) < P(pts, 4)

\* Lines 148-151: the first operand of ok_correction's `and`.
CorrectionFirst(pts, trend_up) ==
    IF trend_up THEN P(pts, 6) < P(pts, 5) ELSE P(pts, 6) > P(pts, 5)

\* Lines 148-151: its second operand, evaluated only when the first is true.
CorrectionSecond(pts, trend_up) ==
    IF trend_up THEN P(pts, 7) > P(pts, 6) ELSE P(pts, 7) < P(pts, 6)

\* Line 153.
WaveLabels == <<"1", "2", "3", "4", "5", "A", "B", "C">>

\* Line 157: the eight (idx, price, label) triples.
LabelTriples(pts) ==
    [k \in 1..8 |-> <<pts[k].idx, pts[k].price, WaveLabels[k]>>]

\* Lines 126-159.
TryLabel(sw) ==
    IF TooFew(sw)
    THEN [ok |-> FALSE, reason |-> "too few swings", labels |-> <<>>]
    ELSE LET pts == Window(sw)
             trend_up == P(pts, 5) > P(pts, 0)
             trend_down == P(pts, 5) < P(pts, 0)
         IN  IF ~(trend_up \/ trend_down)
             THEN [ok |-> FALSE, reason |-> "unclear trend", labels |-> <<>>]
             ELSE IF \/ CorrectionFirst(pts, trend_up) /\ ~InRange(pts, 7)
                     \/ \E k \in 0..7 : ~InRange(pts, k)
                  THEN [raised |-> "IndexError"]
                  ELSE [ok |-> /\ OkImpulse(pts, trend_up)
                               /\ CorrectionFirst(pts, trend_up)
                               /\ CorrectionSecond(pts, trend_up),
                        trend |-> IF trend_up THEN "up" ELSE "down",
                        labels |-> LabelTriples(pts),
                        points |-> pts]

(***************************************************************************)
(* analyze: swings = zigzag(close, pct); labeling = try_label_5_3(swings), *)
(* with zigzag taken one block of its loop at a time.                      *)
(***************************************************************************)
Cur == [direction |-> direction,
        last_pivot_idx |-> last_pivot_idx,
        last_pivot_price |-> last_pivot_price,
        swings |-> swings]

SetCur(st) ==
    /\ direction' = st.direction
    /\ last_pivot_idx' = st.last_pivot_idx
    /\ last_pivot_price' = st.last_pivot_price
    /\ swings' = st.swings

NoLoopState == [direction |-> 0, last_pivot_idx |-> 0,
                last_pivot_price |-> 0, swings |-> <<>>]

NoLabeling == [pending |-> TRUE]

InitWith(series, thr) ==
    /\ prices = series
    /\ pct = thr
    /\ i = 0
    /\ direction = 0
    /\ last_pivot_idx = 0
    /\ last_pivot_price = 0
    /\ swings = <<>>
    /\ cleaned = <<>>
    /\ labeling = NoLabeling
    /\ entry = NoLoopState
    /\ pc = "enter"

Init == \E series \in SeriesSet, thr \in PctSet : InitWith(series, thr)

\* Lines 59-68.
Enter ==
    /\ pc = "enter"
    /\ IF prices = <<>>
       THEN /\ cleaned' = <<>>
            /\ pc' = "label"
            /\ UNCHANGED <<i, direction, last_pivot_idx, last_pivot_price, swings, entry>>
       ELSE /\ SetCur(EnterState(prices))
            /\ entry' = EnterState(prices)
            /\ i' = 2
            /\ pc' = IF Len(prices) >= 2 THEN "up" ELSE "close"
            /\ UNCHANGED cleaned
    /\ UNCHANGED <<prices, pct, labeling>>

\* Lines 70-86: the first block of iteration i.
LoopUp ==
    /\ pc = "up"
    /\ entry' = Cur
    /\ SetCur(BlockUp(Cur, prices, pct, i))
    /\ pc' = "down"
    /\ UNCHANGED <<prices, pct, i, cleaned, labeling>>

\* Lines 88-100: the second block of iteration i, and the loop's increment.
LoopDown ==
    /\ pc = "down"
    /\ SetCur(BlockDown(Cur, prices, pct, i))
    /\ i' = i + 1
    /\ pc' = IF i + 1 <= Len(prices) THEN "up" ELSE "close"
    /\ UNCHANGED <<prices, pct, cleaned, labeling, entry>>

\* Line 102.
Close ==
    /\ pc = "close"
    /\ swings' = CloseSwings(Cur, prices)
    /\ pc' = "clean"
    /\ UNCHANGED <<prices, pct, i, direction, last_pivot_idx, last_pivot_price,
                   cleaned, labeling, entry>>

\* Lines 104-108.
Dedup ==
    /\ pc = "clean"
    /\ cleaned' = Clean(swings)
    /\ pc' = "label"
    /\ UNCHANGED <<prices, pct, i, direction, last_pivot_idx, last_pivot_price,
                   swings, labeling, entry>>

\* Line 166.
Label ==
    /\ pc = "label"
    /\ labeling' = TryLabel(cleaned)
    /\ pc' = "done"
    /\ UNCHANGED <<prices, pct, i, direction, last_pivot_idx, last_pivot_price,
                   swings, cleaned, entry>>

Next == Enter \/ LoopUp \/ LoopDown \/ Close \/ Dedup \/ Label

Spec == Init /\ [][Next]_vars

(***************************************************************************)
(* Properties of zigzag, checked under Spec.                               *)
(***************************************************************************)
\* zigzag has returned `cleaned` for the non-empty series `prices`.
Returned == pc \in {"label", "done"} /\ prices # <<>>

\* C2: alternation invariant.  If zigzag returns at least 3 swings, no two
\* consecutive swings after the anchor carry the same direction, the pair of
\* the last confirmed pivot and the closing swing included.
C2_Alternation ==
    (Returned /\ Len(cleaned) >= 3) =>
        \A k \in 2..(Len(cleaned) - 1) :
            cleaned[k].direction # cleaned[k + 1].direction

\* Reached: a result with two confirmed pivots and the closer.
C2_Witness ==
    /\ Returned
    /\ Len(cleaned) >= 4
    /\ cleaned[2].direction = 1
    /\ cleaned[3].direction = -1

\* C3: threshold monotonicity.  For thresholds pct <= t2, zigzag(prices, t2)
\* returns no more swings than zigzag(prices, pct).
C3_ThresholdMonotone ==
    Returned =>
        \A t2 \in PctSet :
            pct <= t2 => Len(Zigzag(prices, t2)) <= Len(cleaned)

\* Reached: a larger threshold that returns strictly fewer swings.
C3_Witness ==
    /\ Returned
    /\ Len(cleaned) >= 4
    /\ \E t2 \in PctSet : pct < t2 /\ Len(Zigzag(prices, t2)) < Len(cleaned)

\* C4: anchor and closer.  The result starts with the UNKNOWN anchor at the
\* first point and ends with the closer at the last point, carrying the
\* direction the loop ended in; the deduplication removes neither (for a
\* one-point series they are one element).
C4_AnchorCloser ==
    Returned =>
        LET n == Len(prices)
            m == Len(cleaned)
        IN  /\ m >= 1
            /\ cleaned[1] = Swing(1, prices[1], 0)
            /\ cleaned[m] = Swing(n, prices[n], direction)
            /\ cleaned[1] = swings[1]
            /\ cleaned[m] = swings[Len(swings)]
            /\ (n = 1 => m = 1)
            /\ (n > 1 => m >= 2)

\* Reached: a result whose closer carries a direction set during the pass.
C4_Witness ==
    /\ Returned
    /\ Len(cleaned) >= 3
    /\ cleaned[Len(cleaned)].direction = -1
    /\ cleaned[Len(cleaned)].idx = Len(prices)

SingleTransition(st, series, thr, k) ==
    LET price == series[k]
    IN  CASE st.direction = 0 ->
                 IF ChangeReached(price, st.last_pivot_price, thr)
                 THEN [st EXCEPT !.direction = IF price > st.last_pivot_price THEN 1 ELSE -1]
                 ELSE st
          [] st.direction = 1 ->
                 IF DownReached(price, SliceMax(series, st.last_pivot_idx, k), thr)
                 THEN ConfirmHigh(st, series, k)
                 ELSE st
          [] st.direction = -1 ->
                 IF UpReached(price, SliceMin(series, st.last_pivot_idx, k), thr)
                 THEN ConfirmLow(st, series, k)
                 ELSE st

\* An iteration of the loop has just ended; `entry` is the state it started in.
IterationEnded == pc \in {"up", "close"} /\ i > 2

\* C9: no same-step double trigger.  Each iteration appends at most one
\* swing; when the first block sets or flips the direction, the second block
\* of that iteration changes neither the direction, the last pivot nor the
\* swings; and the iteration is one transition of the state machine.
C9_NoDoubleTrigger ==
    /\ [](IterationEnded =>
            /\ Len(swings) <= Len(entry.swings) + 1
            /\ Cur = SingleTransition(entry, prices, pct, i - 1))
    /\ [][(pc = "down" /\ direction # entry.direction) =>
            UNCHANGED <<direction, last_pivot_idx, last_pivot_price, swings>>]_vars

\* Reached: an iteration whose first block confirmed a high and flipped the
\* direction to DOWN, after the second block has run.
C9_Witness ==
    /\ IterationEnded
    /\ entry.direction = 1
    /\ direction = -1
    /\ Len(swings) = Len(entry.swings) + 1

(***************************************************************************)
(* try_label_5_3 on arbitrary swing sequences.                             *)
(***************************************************************************)
LabelLen == 9
LabelPrices == {1, 2, 3}

\* The window of the spec's "ideal 5-3 pattern" scenario, and the same
\* window with p[2] > p[1] ("broken impulse").
IdealWindow == <<100, 110, 105, 115, 108, 120, 114, 118>>
BrokenWindow == <<100, 110, 112, 115, 108, 120, 114, 118>>

\* Swings with the given prices at timestamps 1, 2, ...: an anchor, then
\* alternating directions.
SwingsOf(ps) ==
    [k \in 1..Len(ps) |->
        Swing(k, ps[k], IF k = 1 THEN 0 ELSE IF k % 2 = 0 THEN 1 ELSE -1)]

LabelInputs ==
    {SwingsOf(ps) : ps \in UNION {[1..n -> LabelPrices] : n \in 0..LabelLen}}
    \cup {SwingsOf(w \o <<t>>) : w \in {IdealWindow, BrokenWindow}, t \in {116, 125}}

InitLabel ==
    /\ prices = <<>>
    /\ pct = 5
    /\ i = 0
    /\ direction = 0
    /\ last_pivot_idx = 0
    /\ last_pivot_price = 0
    /\ swings = <<>>
    /\ cleaned \in LabelInputs
    /\ labeling = NoLabeling
    /\ entry = NoLoopState
    /\ pc = "label"

SpecLabel == InitLabel /\ [][Label]_vars

\* try_label_5_3 has returned (or raised) for the swings `cleaned`.
Labeled == pc = "done"

\* The prices of the eight swings before the final one, 0-based.
WinPrice(k) == cleaned[Len(cleaned) - 8 + k].price

WinPrices == [k \in 1..8 |-> WinPrice(k - 1)]

\* C1: try_label_5_3 is total on every sequence of at least 8 swings: it
\* never raises, and when the trend is clear the labels are the 8 triples of
\* the eight swings before the final one, tagged 1..5, A, B, C.
C1_TotalFromEight ==
    (Labeled /\ Len(cleaned) >= 8) =>
        /\ "raised" \notin DOMAIN labeling
        /\ "trend" \in DOMAIN labeling =>
              labeling.labels =
                  [k \in 1..8 |->
                      <<cleaned[Len(cleaned) - 9 + k].idx,
                        cleaned[Len(cleaned) - 9 + k].price,
                        WaveLabels[k]>>]

\* C5: the decision rule on a full window with p[5] # p[0]: the trend is
\* "up" iff p[5] > p[0], and ok iff all seven inequalities hold (mirrored
\* for a down trend); the ideal window is ok and up, the broken one not ok.
C5_DecisionRule ==
    (Labeled /\ Len(cleaned) >= 9) =>
        /\ WinPrice(5) # WinPrice(0) =>
              /\ DOMAIN labeling = {"ok", "trend", "labels", "points"}
              /\ labeling.trend = IF WinPrice(5) > WinPrice(0) THEN "up" ELSE "down"
              /\ labeling.ok =
                    IF WinPrice(5) > WinPrice(0)
                    THEN /\ WinPrice(1) > WinPrice(0) /\ WinPrice(2) < WinPrice(1)
                         /\ WinPrice(3) > WinPrice(2) /\ WinPrice(4) < WinPrice(3)
                         /\ WinPrice(5) > WinPrice(4) /\ WinPrice(6) < WinPrice(5)
                         /\ WinPrice(7) > WinPrice(6)
                    ELSE /\ WinPrice(1) < WinPrice(0) /\ WinPrice(2) > WinPrice(1)
                         /\ WinPrice(3) < WinPrice(2) /\ WinPrice(4) > WinPrice(3)
                         /\ WinPrice(5) < WinPrice(4) /\ WinPrice(6) > WinPrice(5)
                         /\ WinPrice(7) < WinPrice(6)
        /\ WinPrices = IdealWindow => (labeling.ok /\ labeling.trend = "up")
        /\ WinPrices = BrokenWindow => ~labeling.ok

\* Reached: the ideal window, labeled ok and up.
C5_Witness ==
    /\ Labeled
    /\ Len(cleaned) = 9
    /\ WinPrices = IdealWindow
    /\ labeling.ok
    /\ labeling.trend = "up"

\* C6: fewer than 8 swings give exactly ok = false, reason "too few swings",
\* labels = [] and no trend.
C6_Gating ==
    (Labeled /\ Len(cleaned) < 8) =>
        labeling = [ok |-> FALSE, reason |-> "too few swings", labels |-> <<>>]

\* Reached: seven swings with a clear trend among them, rejected as too few.
C6_Witness ==
    /\ Labeled
    /\ Len(cleaned) = 7
    /\ cleaned[6].price # cleaned[1].price
    /\ labeling.reason = "too few swings"

(***************************************************************************)
(* analyze on series long enough for a full window: line 165 as one step.  *)
(***************************************************************************)
AnalyzeLen == 9
AnalyzePrices == {1, 2, 3, 4}
AnalyzePct == {25, 40}

\* Series of 9..AnalyzeLen points, each different from the one before it.
AnalyzeSeries ==
    UNION {{s \in [1..n -> AnalyzePrices] : \A k \in 1..(n - 1) : s[k] # s[k + 1]} :
           n \in 9..AnalyzeLen}

InitAnalyze ==
    /\ \E series \in AnalyzeSeries, thr \in AnalyzePct : InitWith(series, thr)

\* Line 165: swings = zigzag(close, pct=zigzag_pct)
CallZigzag ==
    /\ pc = "enter"
    /\ cleaned' = Zigzag(prices, pct)
    /\ pc' = "label"
    /\ UNCHANGED <<prices, pct, i, direction, last_pivot_idx, last_pivot_price,
                   swings, labeling, entry>>

NextAnalyze == CallZigzag \/ Label

SpecAnalyze == InitAnalyze /\ [][NextAnalyze]_vars

\* C10: on detector output of at least 9 swings, ok is true iff p[1] and
\* p[5] lie strictly on the same side of p[0].
C10_Composition ==
    (Labeled /\ prices # <<>> /\ Len(cleaned) >= 9) =>
        /\ "ok" \in DOMAIN labeling
        /\ labeling.ok =
              (\/ WinPrice(1) > WinPrice(0) /\ WinPrice(5) > WinPrice(0)
               \/ WinPrice(1) < WinPrice(0) /\ WinPrice(5) < WinPrice(0))

\* Reached: detector output with a clear trend that is rejected, p[1] and
\* p[5] on opposite sides of p[0].
C10_Witness ==
    /\ Labeled
    /\ prices # <<>>
    /\ Len(cleaned) >= 9
    /\ "trend" \in DOMAIN labeling
    /\ ~labeling.ok
    /\ WinPrice(1) > WinPrice(0)
    /\ WinPrice(5) < WinPrice(0)

(***************************************************************************)
(* The clean zig-zag scenario: five monotone legs of +10%, -10%, +10%,     *)
(* -10%, +10%, each from the end of the leg before, threshold 5.0.         *)
(***************************************************************************)
MaxMid == 2
DefaultPct == 5
StartSet == {100000, 200000}

\* The start and the five leg ends.
LegEnds(start) ==
    LET e[j \in 0..5] ==
            IF j = 0 THEN start
            ELSE IF j % 2 = 1 THEN (e[j - 1] * 11) \div 10
                 ELSE (e[j - 1] * 9) \div 10
    IN  e

\* The points of a leg from a (excluded) to b (included), m points between.
LegPoints(a, b, m) ==
    [q \in 1..(m + 1) |-> a + ((b - a) * q) \div (m + 1)]

LegSeries(start, mids) ==
    LET e == LegEnds(start)
    IN  <<start>> \o LegPoints(e[0], e[1], mids[1]) \o LegPoints(e[1], e[2], mids[2])
                  \o LegPoints(e[2], e[3], mids[3]) \o LegPoints(e[3], e[4], mids[4])
                  \o LegPoints(e[4], e[5], mids[5])

InitLegs ==
    /\ \E start \in StartSet, mids \in [1..5 -> 0..MaxMid] :
           InitWith(LegSeries(start, mids), DefaultPct)

SpecLegs == InitLegs /\ [][Next]_vars

\* The leg ends, read off the series: the points where it turns, and the last.
Turns ==
    {k \in 2..Len(prices) :
        \/ k = Len(prices)
        \/ prices[k - 1] < prices[k] /\ prices[k] > prices[k + 1]
        \/ prices[k - 1] > prices[k] /\ prices[k] < prices[k + 1]}

NthTurn(j) == CHOOSE k \in Turns : Cardinality({t \in Turns : t <= k}) = j

\* C7: the result is exactly 6 swings: the UNKNOWN anchor at the first
\* point, then the five leg ends with directions UP, DOWN, UP, DOWN, UP.
C7_CleanZigzag ==
    Returned =>
        /\ Cardinality(Turns) = 5
        /\ Len(cleaned) = 6
        /\ cleaned[1] = Swing(1, prices[1], 0)
        /\ \A j \in 1..5 :
              cleaned[j + 1] =
                  Swing(NthTurn(j), prices[NthTurn(j)], IF j % 2 = 1 THEN 1 ELSE -1)

\* Reached: a series with several points per leg, returned as 6 swings.
C7_Witness ==
    /\ Returned
    /\ Len(prices) >= 11
    /\ Len(cleaned) = 6
    /\ cleaned[6].idx = Len(prices)

====
